---- MODULE Spec2Model ----
(***************************************************************************)
(* A model of lt_train.py: the epoch loop of main_worker, the learning-    *)
(* rate schedule, the deferred re-weighting (DRW) of the per-class loss    *)
(* weights, the loss selector, validate's confusion matrix and the best-   *)
(* checkpoint bookkeeping.                                                  *)
(*                                                                         *)
(* Numbers the program holds as floats (learning rates, betas, weights)    *)
(* are modelled as exact non-negative rationals num/den over arbitrary-    *)
(* precision naturals, so that 0.9999^n is computed, not approximated.     *)
(***************************************************************************)
EXTENDS Integers, Sequences, FiniteSets, TLC

-----------------------------------------------------------------------------
(* Arbitrary-precision naturals: little-endian limbs in base Base, without *)
(* leading zero limbs; <<>> is zero.  Every limb product fits 32 bits.     *)

Base == 100 * 100

RECURSIVE BNorm(_)
BNorm(s) ==
    IF s = <<>> THEN <<>>
    ELSE IF s[Len(s)] = 0 THEN BNorm(SubSeq(s, 1, Len(s) - 1))
    ELSE s

RECURSIVE BFromInt(_)
BFromInt(n) ==
    IF n = 0 THEN <<>> ELSE <<n % Base>> \o BFromInt(n \div Base)

Limb(a, i) == IF i <= Len(a) THEN a[i] ELSE 0

Rest(a) == IF a = <<>> THEN <<>> ELSE Tail(a)

RECURSIVE BAddC(_, _, _)
BAddC(a, b, c) ==
    IF a = <<>> /\ b = <<>>
    THEN (IF c = 0 THEN <<>> ELSE <<c>>)
    ELSE LET s == Limb(a, 1) + Limb(b, 1) + c
         IN  <<s % Base>> \o BAddC(Rest(a), Rest(b), s \div Base)

BAdd(a, b) == BAddC(a, b, 0)

RECURSIVE BSubC(_, _, _)
BSubC(a, b, br) ==
    IF a = <<>>
    THEN <<>>
    ELSE LET d == Limb(a, 1) - Limb(b, 1) - br
         IN  IF d < 0
             THEN <<d + Base>> \o BSubC(Rest(a), Rest(b), 1)
             ELSE <<d>> \o BSubC(Rest(a), Rest(b), 0)

\* a - b for a >= b
BSub(a, b) == BNorm(BSubC(a, b, 0))

RECURSIVE BMulSmallC(_, _, _)
BMulSmallC(a, k, c) ==
    IF a = <<>>
    THEN (IF c = 0 THEN <<>> ELSE <<c>>)
    ELSE LET p == a[1] * k + c
         IN  <<p % Base>> \o BMulSmallC(Tail(a), k, p \div Base)

BMulSmall(a, k) == IF k = 0 THEN <<>> ELSE BMulSmallC(a, k, 0)

BShift(a) == IF a = <<>> THEN <<>> ELSE <<0>> \o a

RECURSIVE BMul(_, _)
BMul(a, b) ==
    IF a = <<>> \/ b = <<>> THEN <<>>
    ELSE BAdd(BMulSmall(a, b[1]), BShift(BMul(a, Tail(b))))

RECURSIVE BLessFrom(_, _, _)
BLessFrom(a, b, i) ==
    IF i = 0 THEN FALSE
    ELSE IF a[i] # b[i] THEN a[i] < b[i]
    ELSE BLessFrom(a, b, i - 1)

BLess(a, b) ==
    IF Len(a) # Len(b) THEN Len(a) < Len(b) ELSE BLessFrom(a, b, Len(a))

BLeq(a, b) == a = b \/ BLess(a, b)

RECURSIVE BPow(_, _)
BPow(a, n) == IF n = 0 THEN <<1>> ELSE BMul(a, BPow(a, n - 1))

-----------------------------------------------------------------------------
(* Non-negative rationals [num, den], den > 0.  RNorm cancels common       *)
(* factors of Base, which keeps the limb counts down; equality and order   *)
(* are decided by cross-multiplication.                                    *)

RECURSIVE RNorm(_)
RNorm(r) ==
    IF r.num = <<>> THEN [num |-> <<>>, den |-> <<1>>]
    ELSE IF r.num[1] = 0 /\ r.den[1] = 0
         THEN RNorm([num |-> Tail(r.num), den |-> Tail(r.den)])
         ELSE r

Rat(n, d) == RNorm([num |-> BFromInt(n), den |-> BFromInt(d)])

RAdd(x, y) ==
    IF x.den = y.den
    THEN RNorm([num |-> BAdd(x.num, y.num), den |-> x.den])
    ELSE RNorm([num |-> BAdd(BMul(x.num, y.den), BMul(y.num, x.den)),
                den |-> BMul(x.den, y.den)])

\* x - y for x >= y
RSub(x, y) ==
    RNorm([num |-> BSub(BMul(x.num, y.den), BMul(y.num, x.den)),
           den |-> BMul(x.den, y.den)])

RMul(x, y) == RNorm([num |-> BMul(x.num, y.num), den |-> BMul(x.den, y.den)])

\* x / y for y # 0
RDiv(x, y) == RNorm([num |-> BMul(x.num, y.den), den |-> BMul(x.den, y.num)])

REq(x, y) == BMul(x.num, y.den) = BMul(y.num, x.den)

RLess(x, y) == BLess(BMul(x.num, y.den), BMul(y.num, x.den))

RLeq(x, y) == ~RLess(y, x)

RECURSIVE RPow(_, _)
RPow(x, n) == IF n = 0 THEN Rat(1, 1) ELSE RMul(x, RPow(x, n - 1))

RECURSIVE RSum(_)
RSum(s) == IF s = <<>> THEN Rat(0, 1) ELSE RAdd(s[1], RSum(Tail(s)))

-----------------------------------------------------------------------------
(* Program constants *)

WarmupEpochs == 5
SecondDecay == 180
FirstDecay == 160
DrwPeriod == 160
ValBatchSize == 100

\* betas = [0, 0.9999]
betas == <<Rat(0, 1), Rat(9999, 10000)>>

(* Bounds of the model *)

MaxEpoch == 321
MaxSpan == 3
MaxAcc == 2
MaxClasses == 2
MaxCount == 3
MaxVal == 3
NumLabels == 3

LossTypes == {"CE", "LDAM", "Focal"}
TrainRules == {"None", "DRW", "Resample"}
LrSet == {Rat(1, 10), Rat(3, 100)}
Labels == 0 .. (NumLabels - 1)

SeqsUpTo(S, n) == UNION {[1 .. k -> S] : k \in 1 .. n}

VARIABLES
    args,            \* start_epoch, epochs, lr, loss_type, train_rule
    cls_num_list,    \* training samples per class
    val_loader,      \* the validation targets, in batches
    param_groups,    \* optimizer.param_groups
    best_acc1,       \* global best_acc1
    pc,              \* position in main_worker
    it,              \* next value of range(start_epoch, epochs)
    epoch,           \* loop variable (-1: not yet bound)
    idx,             \* local idx (-1: not yet bound)
    per_cls_weights, \* local per_cls_weights
    criterion,       \* local criterion
    log_training,    \* lines written by train
    val,             \* validate's lists and per-class results at its return
    test_acc,        \* validate's top-1 accuracy (-1: not yet bound)
    is_best,         \* local is_best
    tf_writer,       \* the 'acc' scalars written, one per epoch
    checkpoints      \* the save_checkpoint calls, in order

vars == <<args, cls_num_list, val_loader, param_groups, best_acc1, pc, it,
          epoch, idx, per_cls_weights, criterion, log_training, val,
          test_acc, is_best, tf_writer, checkpoints>>

-----------------------------------------------------------------------------
(* adjust_learning_rate *)

\* mutant: the 0-based epoch is compared with the thresholds as it comes
learning_rate_zero_based(epoch0, a) ==
    IF epoch0 <= WarmupEpochs
    THEN RDiv(RMul(a.lr, Rat(epoch0, 1)), Rat(5, 1))
    ELSE IF epoch0 > SecondDecay THEN RMul(a.lr, Rat(1, 10000))
    ELSE IF epoch0 > FirstDecay THEN RMul(a.lr, Rat(1, 100))
    ELSE a.lr

learning_rate(epoch0, a) ==
    LET e == epoch0 + 1
    IN  IF e <= WarmupEpochs
        THEN RDiv(RMul(a.lr, Rat(e, 1)), Rat(5, 1))
        ELSE IF e > SecondDecay THEN RMul(a.lr, Rat(1, 10000))
        ELSE IF e > FirstDecay THEN RMul(a.lr, Rat(1, 100))
        ELSE a.lr

\* mutant: the decays scale the lr the group holds instead of args.lr
adjust_learning_rate_compound(groups, epoch0, a) ==
    [g \in DOMAIN groups |->
        [groups[g] EXCEPT !.lr =
            IF epoch0 + 1 <= WarmupEpochs
            THEN RDiv(RMul(a.lr, Rat(epoch0 + 1, 1)), Rat(5, 1))
            ELSE IF epoch0 + 1 > SecondDecay THEN RMul(@, Rat(1, 10000))
            ELSE IF epoch0 + 1 > FirstDecay THEN RMul(@, Rat(1, 100))
            ELSE a.lr]]

adjust_learning_rate(groups, epoch0, a) ==
    [g \in DOMAIN groups |->
        [groups[g] EXCEPT !.lr = learning_rate(epoch0, a)]]

-----------------------------------------------------------------------------
(* Deferred re-weighting, main_worker lines 129-134 *)

drw_idx(e) == e \div DrwPeriod

\* mutant: the weights are normalised to sum to 1, not to the class count
drw_weights_unscaled(beta, cls) ==
    LET n == Len(cls)
        effective_num == [c \in 1 .. n |-> RSub(Rat(1, 1), RPow(beta, cls[c]))]
        w == [c \in 1 .. n |-> RDiv(RSub(Rat(1, 1), beta), effective_num[c])]
        total == RSum(w)
    IN  [c \in 1 .. n |-> RDiv(w[c], total)]

drw_weights(beta, cls) ==
    LET n == Len(cls)
        effective_num == [c \in 1 .. n |-> RSub(Rat(1, 1), RPow(beta, cls[c]))]
        w == [c \in 1 .. n |-> RDiv(RSub(Rat(1, 1), beta), effective_num[c])]
        total == RSum(w)
    IN  [c \in 1 .. n |-> RMul(RDiv(w[c], total), Rat(n, 1))]

Unbound == [kind |-> "unbound", w |-> <<>>]
NoWeights == [kind |-> "None", w |-> <<>>]
Tensor(w) == [kind |-> "tensor", w |-> w]

-----------------------------------------------------------------------------
(* validate: the lists it gathers and the per-class accuracy *)

RECURSIVE Batches(_, _)
Batches(s, bs) ==
    IF s = <<>> THEN <<>>
    ELSE IF Len(s) <= bs THEN <<s>>
    ELSE <<SubSeq(s, 1, bs)>> \o Batches(SubSeq(s, bs + 1, Len(s)), bs)

RECURSIVE Flatten(_)
Flatten(bs) == IF bs = <<>> THEN <<>> ELSE bs[1] \o Flatten(Tail(bs))

RECURSIVE SortedSeq(_)
SortedSeq(S) ==
    IF S = {} THEN <<>>
    ELSE LET m == CHOOSE v \in S : \A u \in S : v <= u
         IN  <<m>> \o SortedSeq(S \ {m})

Range(s) == {s[i] : i \in DOMAIN s}

\* sklearn.metrics.confusion_matrix(y_true, y_pred): rows are true labels,
\* columns predicted labels, over the sorted labels that occur in either.
confusion_matrix(y_true, y_pred) ==
    LET labels == SortedSeq(Range(y_true) \cup Range(y_pred))
        n == Len(labels)
    IN  [i \in 1 .. n |-> [j \in 1 .. n |->
            Cardinality({k \in DOMAIN y_true :
                            y_true[k] = labels[i] /\ y_pred[k] = labels[j]})]]

RECURSIVE SumSeq(_)
SumSeq(s) == IF s = <<>> THEN 0 ELSE s[1] + SumSeq(Tail(s))

\* mutant: cf.sum(axis=0), the column sums
cls_cnt_cols(cf) == [i \in DOMAIN cf |-> SumSeq([j \in DOMAIN cf |-> cf[j][i]])]

\* cf.sum(axis=1)
cls_cnt_of(cf) == [i \in DOMAIN cf |-> SumSeq(cf[i])]

\* np.diag(cf)
cls_hit_of(cf) == [i \in DOMAIN cf |-> cf[i][i]]

\* float division of numpy: 0/0 is nan, x/0 is inf
FloatDiv(a, b) ==
    IF b = 0
    THEN [kind |-> IF a = 0 THEN "nan" ELSE "inf", num |-> a, den |-> b]
    ELSE [kind |-> "num", num |-> a, den |-> b]

\* the loop over val_loader; preds[k] is the model's argmax for sample k
RECURSIVE gather(_, _, _)
gather(loader, preds, acc) ==
    IF loader = <<>> THEN acc
    ELSE LET target == loader[1]
             off == Len(acc.all_targets)
             pred == [k \in 1 .. Len(target) |-> preds[off + k]]
         IN  gather(Tail(loader), preds,
                    [all_preds |-> acc.all_preds \o pred,
                     all_targets |-> acc.all_targets \o target])

validate(loader, preds) ==
    LET lists == gather(loader, preds, [all_preds |-> <<>>, all_targets |-> <<>>])
        cf == confusion_matrix(lists.all_targets, lists.all_preds)
        cls_cnt == cls_cnt_of(cf)
        cls_hit == cls_hit_of(cf)
    IN  [all_targets |-> lists.all_targets,
         all_preds |-> lists.all_preds,
         cf |-> cf,
         cls_cnt |-> cls_cnt,
         cls_acc |-> [i \in DOMAIN cf |-> FloatDiv(cls_hit[i], cls_cnt[i])]]

NoVal == [all_targets |-> <<>>, all_preds |-> <<>>, cf |-> <<>>,
          cls_cnt |-> <<>>, cls_acc |-> <<>>]

-----------------------------------------------------------------------------
(* best-checkpoint bookkeeping, main_worker lines 156-157 *)

\* mutant: a tie counts as a new best
IsBestOrTie(acc, best) == acc >= best

IsBest(acc, best) == acc > best

MaxOf(a, b) == IF a >= b THEN a ELSE b

-----------------------------------------------------------------------------
(* The state at the call of main_worker.  The optimizer is built with      *)
(* args.lr (one parameter group), best_acc1 is 0, the locals are unbound.  *)

InitWith(starts, spans, losses, rules, lrs, clsLists, valSets) ==
    /\ args \in {a \in [start_epoch : starts,
                        epochs : 0 .. (MaxEpoch + MaxSpan + 1),
                        lr : lrs,
                        loss_type : losses,
                        train_rule : rules] :
                    a.epochs - a.start_epoch \in spans}
    /\ cls_num_list \in clsLists
    /\ val_loader \in {Batches(t, ValBatchSize) : t \in valSets}
    /\ param_groups = <<[lr |-> args.lr]>>
    /\ best_acc1 = 0
    /\ pc = "for"
    /\ it = args.start_epoch
    /\ epoch = -1
    /\ idx = -1
    /\ per_cls_weights = Unbound
    /\ criterion = [type |-> "unbound", weight |-> Unbound]
    /\ log_training = <<>>
    /\ val = NoVal
    /\ test_acc = -1
    /\ is_best = FALSE
    /\ tf_writer = <<>>
    /\ checkpoints = <<>>

-----------------------------------------------------------------------------
(* main_worker, one action per statement group of the loop body *)

\* line 122: for epoch in range(args.start_epoch, args.epochs)
LoopNext ==
    /\ pc = "for"
    /\ IF it < args.epochs
       THEN /\ epoch' = it
            /\ it' = it + 1
            /\ pc' = "adjust"
       ELSE /\ pc' = "done"
            /\ UNCHANGED <<epoch, it>>
    /\ UNCHANGED <<args, cls_num_list, val_loader, param_groups, best_acc1,
                   idx, per_cls_weights, criterion, log_training, val,
                   test_acc, is_best, tf_writer, checkpoints>>

\* line 123
AdjustLR ==
    /\ pc = "adjust"
    /\ param_groups' = adjust_learning_rate(param_groups, epoch, args)
    /\ pc' = "rule"
    /\ UNCHANGED <<args, cls_num_list, val_loader, best_acc1, it, epoch, idx,
                   per_cls_weights, criterion, log_training, val, test_acc,
                   is_best, tf_writer, checkpoints>>

\* lines 124-136.  betas[idx] raises IndexError when idx is past the list;
\* an unlisted rule only warns and leaves per_cls_weights as it was.
SetRule ==
    /\ pc = "rule"
    /\ IF args.train_rule = "None"
       THEN /\ per_cls_weights' = NoWeights
            /\ pc' = "loss"
            /\ UNCHANGED idx
       ELSE IF args.train_rule = "DRW"
       THEN /\ idx' = drw_idx(epoch)
            /\ IF idx' + 1 \in DOMAIN betas
               THEN /\ per_cls_weights' =
                          Tensor(drw_weights(betas[idx' + 1], cls_num_list))
                    /\ pc' = "loss"
               ELSE /\ pc' = "raised"
                    /\ UNCHANGED per_cls_weights
       ELSE /\ pc' = "loss"
            /\ UNCHANGED <<idx, per_cls_weights>>
    /\ UNCHANGED <<args, cls_num_list, val_loader, param_groups, best_acc1,
                   it, epoch, criterion, log_training, val, test_acc,
                   is_best, tf_writer, checkpoints>>

\* lines 138-144.  Reading an unbound per_cls_weights raises
\* UnboundLocalError; an unlisted loss type warns and returns.
BuildCriterion ==
    /\ pc = "loss"
    /\ IF args.loss_type \in {"CE", "LDAM"}
       THEN IF per_cls_weights.kind = "unbound"
            THEN /\ pc' = "raised"
                 /\ UNCHANGED criterion
            ELSE /\ criterion' = [type |-> args.loss_type,
                                  weight |-> per_cls_weights]
                 /\ pc' = "train"
       ELSE /\ pc' = "returned"
            /\ UNCHANGED criterion
    /\ UNCHANGED <<args, cls_num_list, val_loader, param_groups, best_acc1,
                   it, epoch, idx, per_cls_weights, log_training, val,
                   test_acc, is_best, tf_writer, checkpoints>>

\* line 147: train runs the epoch with the optimizer's current lr and
\* writes its log line, which prints param_groups[-1]['lr'] * 0.1
Train ==
    /\ pc = "train"
    /\ log_training' = Append(log_training,
           [epoch |-> epoch,
            loss |-> criterion.type,
            lr |-> RMul(param_groups[Len(param_groups)].lr, Rat(1, 10))])
    /\ pc' = "validate"
    /\ UNCHANGED <<args, cls_num_list, val_loader, param_groups, best_acc1,
                   it, epoch, idx, per_cls_weights, criterion, val, test_acc,
                   is_best, tf_writer, checkpoints>>

\* line 150: the model's predictions and the top-1 accuracy it returns are
\* inputs; the per-class accuracy is computed from the confusion matrix
Validate ==
    /\ pc = "validate"
    /\ \E preds \in [1 .. Len(Flatten(val_loader)) -> Labels] :
           val' = validate(val_loader, preds)
    /\ \E acc \in 0 .. MaxAcc : test_acc' = acc
    /\ pc' = "best"
    /\ UNCHANGED <<args, cls_num_list, val_loader, param_groups, best_acc1,
                   it, epoch, idx, per_cls_weights, criterion, log_training,
                   is_best, tf_writer, checkpoints>>

\* lines 152-163; validate's lists are gone once its results are logged
UpdateBest ==
    /\ pc = "best"
    /\ tf_writer' = Append(tf_writer, [epoch |-> epoch, test |-> test_acc])
    /\ is_best' = IsBest(test_acc, best_acc1)
    /\ best_acc1' = MaxOf(test_acc, best_acc1)
    /\ val' = NoVal
    /\ pc' = "save"
    /\ UNCHANGED <<args, cls_num_list, val_loader, param_groups, it, epoch,
                   idx, per_cls_weights, criterion, log_training, test_acc,
                   checkpoints>>

\* lines 165-171
SaveCheckpoint ==
    /\ pc = "save"
    /\ checkpoints' = Append(checkpoints,
           [epoch |-> epoch + 1,
            best_acc1 |-> best_acc1,
            optimizer |-> param_groups,
            is_best |-> is_best])
    /\ pc' = "for"
    /\ UNCHANGED <<args, cls_num_list, val_loader, param_groups, best_acc1,
                   it, epoch, idx, per_cls_weights, criterion, log_training,
                   val, test_acc, is_best, tf_writer>>

Next ==
    \/ LoopNext
    \/ AdjustLR
    \/ SetRule
    \/ BuildCriterion
    \/ Train
    \/ Validate
    \/ UpdateBest
    \/ SaveCheckpoint

-----------------------------------------------------------------------------
(* Specifications: the same program over different families of inputs *)

OneClsList == {<<3, 1>>}
OneValSet == {<<0>>}
AllClsLists == SeqsUpTo(1 .. MaxCount, MaxClasses)
AllValSets == SeqsUpTo(Labels, MaxVal)

\* runs of up to MaxSpan epochs that start at 0 or cross a threshold of the
\* schedule: the decays and the end of the betas list
StartEpochs ==
    {0} \cup {t - (MaxSpan - 1) : t \in {FirstDecay, SecondDecay, 2 * DrwPeriod}}

Init ==
    InitWith(StartEpochs, -1 .. MaxSpan, LossTypes, TrainRules, {Rat(1, 10)},
             OneClsList, OneValSet)

Spec == Init /\ [][Next]_vars

\* every epoch up to MaxEpoch, alone and followed by the next one
InitSched ==
    InitWith(0 .. MaxEpoch, {1, 2}, {"CE", "Focal"}, TrainRules, LrSet,
             OneClsList, OneValSet)

SpecSched == InitSched /\ [][Next]_vars

\* every class-count list at the epochs around the DRW switch, and one list
\* at every epoch
InitWeights ==
    \/ InitWith({0, DrwPeriod - 1, DrwPeriod, 2 * DrwPeriod - 1, 2 * DrwPeriod},
                {1}, {"CE", "LDAM", "Focal"}, TrainRules, {Rat(1, 10)},
                AllClsLists, OneValSet)
    \/ InitWith(0 .. MaxEpoch, {1}, {"LDAM"}, {"None", "DRW"}, {Rat(1, 10)},
                OneClsList, OneValSet)

SpecWeights == InitWeights /\ [][Next]_vars

\* every validation set
InitValidate ==
    InitWith({0}, {1}, LossTypes, TrainRules, {Rat(1, 10)}, OneClsList,
             AllValSets)

SpecValidate == InitValidate /\ [][Next]_vars

-----------------------------------------------------------------------------
(* Properties *)

\* the lr, weights and idx in the state are those of the epoch in `epoch`
Settled == epoch >= 0 /\ pc \notin {"adjust", "rule"}

LrSettled == epoch >= 0 /\ pc # "adjust"

Times(r, k) == RMul(r, Rat(k, 1))

C2_LossSelector ==
    args.loss_type \in {"CE", "Focal", "LDAM"} =>
        /\ pc # "returned"
        /\ pc \in {"train", "validate"} => criterion.type = args.loss_type

\* C3: under DRW every weight is exactly 1 while e < 160; for 160 <= e < 320
\* the weights are (1-beta)/(1-beta^n_c) with beta = 0.9999, normalised to
\* sum to the number of classes, and a class with fewer samples never gets a
\* smaller weight.  Under 'None' the weight is None.
C3_DeferredReweighting ==
    Settled =>
        /\ args.train_rule = "None" => per_cls_weights = NoWeights
        /\ (args.train_rule = "DRW" /\ epoch < 320) =>
               /\ per_cls_weights.kind = "tensor"
               /\ DOMAIN per_cls_weights.w = DOMAIN cls_num_list
        /\ (args.train_rule = "DRW" /\ epoch < 160) =>
               \A c \in DOMAIN cls_num_list :
                   REq(per_cls_weights.w[c], Rat(1, 1))
        /\ (args.train_rule = "DRW" /\ 160 <= epoch /\ epoch < 320) =>
               LET beta == Rat(9999, 10000)
                   w == per_cls_weights.w
                   C == Len(cls_num_list)
                   raw == [c \in 1 .. C |->
                              RDiv(RSub(Rat(1, 1), beta),
                                   RSub(Rat(1, 1), RPow(beta, cls_num_list[c])))]
                   total == RSum(raw)
               IN  /\ \A c \in 1 .. C :
                          REq(RMul(w[c], total), Times(raw[c], C))
                   /\ REq(RSum(w), Rat(C, 1))
                   /\ \A c, d \in 1 .. C :
                          cls_num_list[c] <= cls_num_list[d] => RLeq(w[d], w[c])

\* the rare class outweighs the frequent one once the switch has happened
C3_Witness ==
    /\ pc = "loss"
    /\ args.train_rule = "DRW"
    /\ epoch = 160
    /\ cls_num_list = <<3, 1>>
    /\ RLess(per_cls_weights.w[1], Rat(1, 1))
    /\ RLess(Rat(1, 1), per_cls_weights.w[2])

RECURSIVE RunMax(_)
\* the maximum of 0 and the first i validation accuracies written
RunMax(i) == IF i = 0 THEN 0 ELSE MaxOf(tf_writer[i].test, RunMax(i - 1))

Flagged == {i \in DOMAIN checkpoints : checkpoints[i].is_best}

\* C4: best_acc1 is the maximum of 0 and the validation accuracies so far;
\* a checkpoint is flagged is_best iff its epoch's accuracy is strictly above
\* the best before it; the best_acc1 it stores includes its own epoch; the
\* stored values never decrease; the last flagged checkpoint is that of the
\* earliest epoch that reached the best of the checkpoints saved so far.
C4_BestCheckpoint ==
    /\ best_acc1 = RunMax(Len(tf_writer))
    /\ Len(tf_writer) = Len(checkpoints) + (IF pc = "save" THEN 1 ELSE 0)
    /\ \A i \in DOMAIN checkpoints :
           /\ checkpoints[i].epoch = tf_writer[i].epoch + 1
           /\ checkpoints[i].is_best <=> tf_writer[i].test > RunMax(i - 1)
           /\ checkpoints[i].best_acc1 = RunMax(i)
           /\ \A j \in 1 .. i : checkpoints[j].best_acc1 <= checkpoints[i].best_acc1
    /\ Flagged # {} =>
           LET m == CHOOSE i \in Flagged : \A j \in Flagged : j <= i
           IN  /\ tf_writer[m].test = RunMax(Len(checkpoints))
               /\ \A j \in 1 .. (m - 1) : tf_writer[j].test < tf_writer[m].test
               /\ pc # "save" => tf_writer[m].test = best_acc1

\* an epoch that only ties the best is saved unflagged, a later one beats it
C4_Witness ==
    /\ Len(checkpoints) = 3
    /\ checkpoints[1].is_best
    /\ ~checkpoints[2].is_best
    /\ checkpoints[3].is_best
    /\ tf_writer[2].test = tf_writer[1].test

Listed == args.loss_type \in {"CE", "LDAM"} /\ args.train_rule \in {"None", "DRW"}

Planned == IF args.epochs > args.start_epoch
           THEN args.epochs - args.start_epoch ELSE 0

\* C5: for a listed loss type and train rule the loop runs the epochs
\* start_epoch .. epochs-1 once each, in order, and terminates; one
\* checkpoint per epoch, with 'epoch' the index plus 1; nothing happens when
\* start_epoch >= epochs.
C5_EveryEpochOnce ==
    Listed =>
        /\ pc \notin {"raised", "returned"}
        /\ \A i \in DOMAIN log_training :
               log_training[i].epoch = args.start_epoch + i - 1
        /\ \A i \in DOMAIN checkpoints :
               checkpoints[i].epoch = args.start_epoch + i
        /\ pc = "done" =>
               /\ Len(log_training) = Planned
               /\ Len(checkpoints) = Planned
        /\ args.start_epoch >= args.epochs =>
               /\ log_training = <<>>
               /\ checkpoints = <<>>
               /\ param_groups = <<[lr |-> args.lr]>>

ValLabels == SortedSeq(Range(val.all_targets) \cup Range(val.all_preds))

Hits(l) == Cardinality({k \in DOMAIN val.all_targets :
                           val.all_targets[k] = l /\ val.all_preds[k] = l})

Count(l) == Cardinality({k \in DOMAIN val.all_targets : val.all_targets[k] = l})

\* C6 as stated: every label among the targets or the predictions has the
\* entry hits/count, a defined number in [0, 1], and the counts add up to
\* the number of validation samples.
C6_EveryLabelDefined ==
    pc = "best" =>
        /\ DOMAIN val.cls_acc = DOMAIN ValLabels
        /\ \A i \in DOMAIN ValLabels :
               /\ val.cls_acc[i].kind = "num"
               /\ val.cls_acc[i].num = Hits(ValLabels[i])
               /\ val.cls_acc[i].den = Count(ValLabels[i])
               /\ val.cls_acc[i].num <= val.cls_acc[i].den
        /\ SumSeq(val.cls_cnt) = Len(val.all_targets)

\* C6 amended: every label among the targets has the entry hits/count, a
\* defined number in [0, 1]; a label that occurs only among the predictions
\* has count 0 and the entry 0/0 (nan); the counts add up to the number of
\* validation samples.
C6_TargetLabelsDefined ==
    pc = "best" =>
        /\ val.all_targets = Flatten(val_loader)
        /\ Len(val.all_preds) = Len(val.all_targets)
        /\ DOMAIN val.cls_acc = DOMAIN ValLabels
        /\ DOMAIN val.cls_cnt = DOMAIN ValLabels
        /\ \A i \in DOMAIN ValLabels :
               /\ val.cls_cnt[i] = Count(ValLabels[i])
               /\ IF ValLabels[i] \in Range(val.all_targets)
                  THEN /\ val.cls_acc[i].kind = "num"
                       /\ val.cls_acc[i].num = Hits(ValLabels[i])
                       /\ val.cls_acc[i].den = Count(ValLabels[i])
                       /\ 0 <= val.cls_acc[i].num
                       /\ val.cls_acc[i].num <= val.cls_acc[i].den
                       /\ val.cls_acc[i].den > 0
                  ELSE /\ val.cls_acc[i].kind = "nan"
                       /\ val.cls_cnt[i] = 0
        /\ SumSeq(val.cls_cnt) = Len(val.all_targets)

\* a class partly hit beside a label that was only ever predicted
C6_Witness ==
    /\ pc = "best"
    /\ \E i, j \in DOMAIN val.cls_acc :
           /\ val.cls_acc[i].kind = "nan"
           /\ val.cls_acc[j].kind = "num"
           /\ 0 < val.cls_acc[j].num
           /\ val.cls_acc[j].num < val.cls_acc[j].den

\* C7: the lr written for epoch e is args.lr * 0.1^(e // 30).
C7_DecayEvery30 ==
    LrSettled =>
        \A g \in DOMAIN param_groups :
            REq(param_groups[g].lr,
                RMul(args.lr, RPow(Rat(1, 10), epoch \div 30)))

\* C8: under DRW idx is 0 or 1 in every epoch the loop executes, so the
\* weight computation never raises and the run reaches its last epoch.
C8_IdxInRange ==
    args.train_rule = "DRW" =>
        /\ idx \in {-1, 0, 1}
        /\ (args.loss_type \in {"CE", "LDAM"}) => pc # "raised"

====
